---- MODULE Spec2Model ----
(***************************************************************************)
(* The task controller of flowsy-vue-task: useTask(action, options).       *)
(*                                                                         *)
(* The repository holds two versions of useTask:                           *)
(*   "task"  - src/src/task.ts (the module src/src/index.ts exports):      *)
(*             synchronous abort and reset, no throwOnFail, no canAbort    *)
(*             predicate, the initial argument comes from createArgument;  *)
(*   "part"  - src/unnamed/part_000: asynchronous abort and reset,         *)
(*             options.argument, options.canAbort, options.throwOnFail.    *)
(* The variable impl says which of the two a behaviour runs.               *)
(*                                                                         *)
(* A step is one run-to-completion piece of JavaScript: the synchronous    *)
(* part of a call up to its first await, or the continuation after an      *)
(* await.  An action that throws synchronously inside the try block is     *)
(* the behaviour "execute, then settle(reject) with nothing in between".   *)
(* Callbacks are taken not to call back into the controller.  In Spec     *)
(* they do not throw; SpecThrowing also registers callbacks that throw.    *)
(* The abort capability and createArgument are taken not to fail.          *)
(***************************************************************************)
EXTENDS Naturals, Sequences, FiniteSets

\* ---------------------------------------------------------------- bounds
\* In-flight invocations of the action the model follows at once.
MaxInflight == 2
\* Resets of part_000 suspended in "await options.createArgument()" at once.
MaxResets == 1
\* Callbacks registered over all six registries.
MaxHooks == 1

\* ---------------------------------------------------------------- values
\* JavaScript values.  Undefined and Zero are falsy, the others truthy.
Undefined == "undefined"
Zero == "0"
Truthy(v) == v \notin {Undefined, Zero}

\* Arguments a caller passes to execute (Undefined: none passed).
Args == {Undefined, Zero, "a1", "a2"}
\* Values the action resolves with, and payloads it rejects with.
Resolved == {Zero, "r1"}
Rejected == {Zero, "e1"}
\* What options.argument seeds and what options.createArgument() produces.
SeedArgument == "a1"
CreatedArgument == "a1"
\* The configured predicates: options.canExecute(a) and options.canAbort(a).
canExecutePredicate(a) == a = "a1"
canAbortPredicate(a) == a = "a1"

TaskStates == {"Idle", "Executing", "Completed", "Failed", "Aborted"}
HookKinds == {"onIdle", "onExecuting", "onCompleted", "onFailed", "onAborted", "onFinished"}
\* No action was invoked in this step.
NoCall == "nocall"

VARIABLES impl, options, state, argument, result, error, hooks, throwers,
          inflight, latestInflight, resetting, resetFrom,
          op, callArg, outcome, retVal, invokedArg, dispatched

ctl == <<state, argument, result, error>>
cfg == <<impl, options, throwers>>
pend == <<inflight, latestInflight, resetting, resetFrom>>
hist == <<op, callArg, outcome, retVal, invokedArg, dispatched>>
vars == <<impl, options, state, argument, result, error, hooks, throwers,
          inflight, latestInflight, resetting, resetFrom,
          op, callArg, outcome, retVal, invokedArg, dispatched>>

\* ------------------------------------------------------------- options
\* A field of TRUE says the option is configured.  src/src/task.ts knows
\* only createArgument, canExecute and abort.  options.argument is read
\* once, at construction: Init draws it.
OptionSets ==
  [canExecute : BOOLEAN, canAbort : BOOLEAN, abort : BOOLEAN,
   createArgument : BOOLEAN, throwOnFail : BOOLEAN]

TaskOptions(i) ==
  IF i = "task"
  THEN { o \in OptionSets : ~o.canAbort /\ ~o.throwOnFail }
  ELSE OptionSets

\* The argument slot after construction: task.ts calls createArgument(),
\* part_000 takes a truthy options.argument (seed; Undefined: not given).
initialArgument(i, o, seed) ==
  IF i = "task"
  THEN (IF o.createArgument THEN CreatedArgument ELSE Undefined)
  ELSE (IF Truthy(seed) THEN seed ELSE Undefined)

\* --------------------------------------------------------- projections
isIdle == state = "Idle"
isExecuting == state = "Executing"
isCompleted == state = "Completed"
isFailed == state = "Failed"
isAborted == state = "Aborted"
\* A slip: Aborted left out of isFinished.
isFinished_noAborted == isCompleted \/ isFailed

isFinished == isCompleted \/ isFailed \/ isAborted

\* canExecute for a stored argument arg.
canExecuteFor(arg) == IF options.canExecute THEN canExecutePredicate(arg) ELSE TRUE
canExecute == canExecuteFor(argument)

canAbort ==
  IF impl = "task"
  THEN options.abort
  ELSE (IF options.canAbort THEN canAbortPredicate(argument) ELSE FALSE)

\* ------------------------------------------------------------ dispatch
\* A registry holds hooks[kind] callbacks, each named by its position;
\* throwers[kind] is the position of its first callback that throws (0: none
\* does).  hooks.forEach(fn => fn(context)): one dispatch of the kind, calling
\* the callbacks of the registry in registration order, up to the first that
\* throws; st is the state the context shows while they run.
\* createEventContext(): an object of four getters over the live cells;
\* this is what reading a context, whenever it was made, returns now.
createEventContext ==
  [state |-> state, argument |-> argument, result |-> result, error |-> error]

hookThrows(kind) == throwers[kind] > 0

dispatch(kind, st) ==
  LET n == IF hookThrows(kind) THEN throwers[kind] ELSE hooks[kind] IN
  << [hook |-> kind, calls |-> [i \in 1..n |-> i], state |-> st] >>

\* One forEach after the other: an exception of the first leaves the
\* function, and the second is not run.
dispatchBoth(first, second, st) ==
  dispatch(first, st) \o (IF hookThrows(first) THEN <<>> ELSE dispatch(second, st))

\* What the caller gets when a callback threw: the callback's exception.
HookError == "hookError"

raiseHookError ==
  /\ outcome' = "hookThrew"
  /\ retVal' = HookError

Init ==
  /\ impl \in {"task", "part"}
  /\ options \in TaskOptions(impl)
  /\ state = "Idle"
  /\ \E seed \in {Undefined, Zero, SeedArgument} :
       argument = initialArgument(impl, options, seed)
  /\ result = Undefined
  /\ error = Undefined
  /\ hooks = [k \in HookKinds |-> 0]
  /\ throwers = [k \in HookKinds |-> 0]
  /\ inflight = 0
  /\ latestInflight = FALSE
  /\ resetting = 0
  /\ resetFrom = 0
  /\ op = "useTask"
  /\ callArg = Undefined
  /\ outcome = "ok"
  /\ retVal = Undefined
  /\ invokedArg = NoCall
  /\ dispatched = <<>>


\* ------------------------------------------------------------- execute
\* What a step that is not the end of an execute leaves in the history.
note(o, a, out) ==
  /\ op' = o
  /\ callArg' = a
  /\ outcome' = out
  /\ retVal' = Undefined

\* "if (a) argument.value = a": the argument slot after the call stored a.
storeArgument(a) == IF Truthy(a) THEN a ELSE argument

\* The error slot on entering Executing: task.ts clears it, part_000 does not.
errorOnExecuting == IF impl = "task" THEN Undefined ELSE error

\* A slip: the guard of execute left out.
alreadyExecuting_dropped == FALSE

\* The first guard of execute.
alreadyExecuting == isExecuting

\* execute(a), up to the await of the action.
execute(a) ==
  \/ /\ alreadyExecuting
     /\ note("execute", a, "AlreadyExecuting")
     /\ invokedArg' = NoCall
     /\ dispatched' = <<>>
     /\ UNCHANGED <<cfg, ctl, hooks, pend>>
  \/ /\ ~alreadyExecuting
     /\ ~canExecuteFor(storeArgument(a))
     /\ argument' = storeArgument(a)
     /\ note("execute", a, "CannotExecute")
     /\ invokedArg' = NoCall
     /\ dispatched' = <<>>
     /\ UNCHANGED <<cfg, state, result, error, hooks, pend>>
  \/ /\ ~alreadyExecuting
     /\ canExecuteFor(storeArgument(a))
     /\ inflight < MaxInflight
     /\ argument' = storeArgument(a)
     /\ state' = "Executing"
     /\ result' = Undefined
     /\ error' = errorOnExecuting
     /\ dispatched' = dispatch("onExecuting", "Executing")
     /\ op' = "execute"
     /\ callArg' = a
     /\ IF hookThrows("onExecuting")
        THEN /\ invokedArg' = NoCall
             /\ inflight' = inflight
             /\ latestInflight' = FALSE
             /\ raiseHookError
        ELSE /\ invokedArg' = storeArgument(a)
             /\ inflight' = inflight + 1
             /\ latestInflight' = TRUE
             /\ outcome' = "started"
             /\ retVal' = Undefined
     /\ UNCHANGED <<cfg, hooks, resetting, resetFrom>>

\* ---------------------------------------------------------- settlement
\* The result slot after the action resolved with v.
resolvedResult(v) ==
  IF impl = "task" THEN v ELSE (IF Truthy(v) THEN v ELSE Undefined)

\* Whether execute ends by throwing error.value, e being the error slot.
throwsError(e) ==
  IF impl = "task" THEN Truthy(e) ELSE (Truthy(e) /\ options.throwOnFail)

\* The state after the action resolved / rejected.
stateOnResolve == "Completed"
stateOnReject == "Failed"

\* An in-flight invocation that may settle: the one of the most recent
\* execute (latest) or an older one.
canSettle(latest) ==
  IF latest THEN latestInflight
  ELSE inflight > (IF latestInflight THEN 1 ELSE 0)

\* The end of execute: what the caller's promise settles with.
finish(e, r) ==
  /\ outcome' = (IF throwsError(e) THEN "raised" ELSE "returned")
  /\ retVal' = (IF throwsError(e) THEN e ELSE r)

\* The continuation of execute after the action resolved with v.
resolve(latest, v) ==
  /\ canSettle(latest)
  /\ result' = resolvedResult(v)
  /\ state' = stateOnResolve
  /\ dispatched' = dispatchBoth("onCompleted", "onFinished", state')
  /\ IF hookThrows("onCompleted") \/ hookThrows("onFinished")
     THEN raiseHookError
     ELSE finish(error, result')
  /\ op' = "resolve"
  /\ callArg' = v
  /\ invokedArg' = NoCall
  /\ inflight' = inflight - 1
  /\ latestInflight' = (latestInflight /\ ~latest)
  /\ UNCHANGED <<cfg, argument, error, hooks, resetting, resetFrom>>

\* The continuation of execute after the action rejected with e.
reject(latest, e) ==
  /\ canSettle(latest)
  /\ error' = e
  /\ state' = stateOnReject
  /\ dispatched' = dispatchBoth("onFailed", "onFinished", state')
  /\ IF hookThrows("onFailed") \/ hookThrows("onFinished")
     THEN raiseHookError
     ELSE finish(error', result)
  /\ op' = "reject"
  /\ callArg' = e
  /\ invokedArg' = NoCall
  /\ inflight' = inflight - 1
  /\ latestInflight' = (latestInflight /\ ~latest)
  /\ UNCHANGED <<cfg, argument, result, hooks, resetting, resetFrom>>


\* --------------------------------------------------------------- abort
\* A slip: options.abort itself is not asked for.
\* "options?.abort && typeof options?.canAbort === 'function'" in part_000,
\* "options?.abort && typeof options?.abort === 'function'" in task.ts.
abortConfigured_noCapability ==
  IF impl = "task" THEN TRUE ELSE options.canAbort

abortConfigured ==
  IF impl = "task" THEN options.abort ELSE (options.abort /\ options.canAbort)

\* The guard of abort: the call goes through.
abortAllowed == isExecuting /\ canAbort /\ abortConfigured

\* abort(): the in-flight action keeps running.
abort ==
  \/ /\ ~abortAllowed
     /\ note("abort", Undefined, "CannotAbort")
     /\ invokedArg' = NoCall
     /\ dispatched' = <<>>
     /\ UNCHANGED <<cfg, ctl, hooks, pend>>
  \/ /\ abortAllowed
     /\ state' = "Aborted"
     /\ dispatched' = dispatch("onAborted", state')
     /\ op' = "abort"
     /\ callArg' = Undefined
     /\ IF hookThrows("onAborted")
        THEN raiseHookError
        ELSE outcome' = "ok" /\ retVal' = Undefined
     /\ invokedArg' = NoCall
     /\ UNCHANGED <<cfg, argument, result, error, hooks, pend>>

\* --------------------------------------------------------------- reset
\* A slip: the guard of reset reads the wrong flag.
cannotReset_wrongFlag == isIdle

\* The guard of reset: the call is refused.
cannotReset == isExecuting

\* part_000 awaits options.createArgument() before it writes the slots.
resetSuspends == impl = "part" /\ options.createArgument

\* The argument a reset writes.
resetArgument == IF options.createArgument THEN CreatedArgument ELSE Undefined

\* reset(), to its end or to the await of createArgument.
reset ==
  \/ /\ cannotReset
     /\ note("reset", Undefined, "CannotReset")
     /\ invokedArg' = NoCall
     /\ dispatched' = <<>>
     /\ UNCHANGED <<cfg, ctl, hooks, pend>>
  \/ /\ ~cannotReset
     /\ ~resetSuspends
     /\ state' = "Idle"
     /\ argument' = resetArgument
     /\ result' = Undefined
     /\ error' = Undefined
     /\ dispatched' = dispatch("onIdle", state')
     /\ op' = "reset"
     /\ callArg' = Undefined
     /\ IF hookThrows("onIdle")
        THEN raiseHookError
        ELSE outcome' = "ok" /\ retVal' = Undefined
     /\ invokedArg' = NoCall
     /\ UNCHANGED <<cfg, hooks, pend>>
  \/ /\ ~cannotReset
     /\ resetSuspends
     /\ resetting < MaxResets
     /\ state' = "Idle"
     /\ resetting' = resetting + 1
     /\ resetFrom' = resetFrom + (IF isFinished THEN 1 ELSE 0)
     /\ dispatched' = <<>>
     /\ note("reset", Undefined, "suspended")
     /\ invokedArg' = NoCall
     /\ UNCHANGED <<cfg, argument, result, error, hooks, inflight, latestInflight>>

\* The continuation of a suspended reset, once createArgument() resolved.
\* resetFrom counts the suspended resets that were called in a finished
\* state; the history notes whether the one that resumes was (fin).
resetResume ==
  /\ resetting > 0
  /\ \E fin \in BOOLEAN :
       /\ IF fin THEN resetFrom > 0 ELSE resetting > resetFrom
       /\ resetFrom' = resetFrom - (IF fin THEN 1 ELSE 0)
       /\ op' = "resetResume"
       /\ callArg' = (IF fin THEN "finished" ELSE Undefined)
  /\ IF hookThrows("onIdle")
     THEN raiseHookError
     ELSE outcome' = "ok" /\ retVal' = Undefined
  /\ resetting' = resetting - 1
  /\ argument' = resetArgument
  /\ result' = Undefined
  /\ error' = Undefined
  /\ dispatched' = dispatch("onIdle", state)
  /\ invokedArg' = NoCall
  /\ UNCHANGED <<cfg, state, hooks, inflight, latestInflight>>

\* -------------------------------------------------------- registration
RECURSIVE sumOver(_, _)
sumOver(f, S) ==
  IF S = {} THEN 0
  ELSE LET k == CHOOSE x \in S : TRUE IN f[k] + sumOver(f, S \ {k})

registered == sumOver(hooks, HookKinds)

\* onIdle(fn), onExecuting(fn), ...: push fn on the registry of kind;
\* bad says that fn throws when it is called.
register(kind, bad) ==
  /\ registered < MaxHooks
  /\ hooks' = [hooks EXCEPT ![kind] = @ + 1]
  /\ throwers' = IF bad /\ ~hookThrows(kind)
                 THEN [throwers EXCEPT ![kind] = hooks[kind] + 1]
                 ELSE throwers
  /\ note("register", kind, "ok")
  /\ invokedArg' = NoCall
  /\ dispatched' = <<>>
  /\ UNCHANGED <<impl, options, ctl, pend>>

\* ------------------------------------------------------- specification
Next ==
  \/ \E a \in Args : execute(a)
  \/ \E latest \in BOOLEAN, v \in Resolved : resolve(latest, v)
  \/ \E latest \in BOOLEAN, e \in Rejected : reject(latest, e)
  \/ abort
  \/ reset
  \/ resetResume
  \/ \E kind \in HookKinds : register(kind, FALSE)

Spec == Init /\ [][Next]_vars

\* Callbacks that throw are registered too.
NextThrowing ==
  \/ Next
  \/ \E kind \in HookKinds : register(kind, TRUE)

SpecThrowing == Init /\ [][NextThrowing]_vars

\* Every invoked action settles, and so does every createArgument().
Settle ==
  \/ \E latest \in BOOLEAN, v \in Resolved : resolve(latest, v)
  \/ \E latest \in BOOLEAN, e \in Rejected : reject(latest, e)

FairSpec == Spec /\ WF_vars(Settle) /\ WF_vars(resetResume)

FairSpecThrowing == SpecThrowing /\ WF_vars(Settle) /\ WF_vars(resetResume)


\* ---------------------------------------------------------------- claims
\* The hook kinds dispatched by the last step.
dispatchedKinds == { dispatched[i].hook : i \in 1..Len(dispatched) }
settles == {"resolve", "reject"}

\* C1: at most one invocation of the action is in flight at any time, also
\* when execute is called after abort while the aborted action is pending.
C1_AtMostOneInFlight == inflight <= 1

\* C2: once abort has made the state Aborted, the settlement of the action
\* that was in flight changes neither state nor result nor error and
\* dispatches neither onCompleted nor onFailed.
C2_SoftAbort ==
  [][(isAborted /\ op' \in settles) =>
       /\ UNCHANGED <<state, result, error>>
       /\ dispatchedKinds' \cap {"onCompleted", "onFailed"} = {}]_vars

\* C3: every change of state follows a defined edge: a state other than
\* Executing to Executing by execute, Executing to Completed by a resolve,
\* to Failed by a reject, to Aborted by abort, and a state other than
\* Executing to Idle by reset.
DefinedEdges ==
  LET rest == TaskStates \ {"Executing"} IN
       { <<s, "Executing", "execute">> : s \in rest }
  \cup { <<s, "Idle", "reset">> : s \in rest }
  \cup { <<"Executing", "Completed", "resolve">>,
         <<"Executing", "Failed", "reject">>,
         <<"Executing", "Aborted", "abort">> }

C3_DefinedEdges ==
  [][state' # state => <<state, state', op'>> \in DefinedEdges]_vars

\* C4: execute called while the state is Executing fails with
\* AlreadyExecuting, invokes no action and leaves the state Executing.
C4_AlreadyExecuting ==
  [][(isExecuting /\ op' = "execute") =>
       /\ outcome' = "AlreadyExecuting"
       /\ invokedArg' = NoCall
       /\ inflight' = inflight
       /\ state' = "Executing"]_vars

C4_Witness ==
  /\ op = "execute"
  /\ outcome = "AlreadyExecuting"
  /\ state = "Executing"
  /\ inflight > 0

\* C5: when the action of an execute has resolved, whatever came before,
\* the state is Completed, the result is the resolved value (a falsy value
\* may read as no result) and the error is absent.
C5_AfterSuccess ==
  op = "resolve" =>
    /\ state = "Completed"
    /\ (result = callArg \/ (~Truthy(callArg) /\ result = Undefined))
    /\ error = Undefined

\* C6: when the action of an execute has rejected and throwOnFail is not
\* set, the state is Failed, the error is the payload, the result is absent
\* and execute does not raise.  Stated for the version that has throwOnFail.
C6_AfterFailure ==
  (op = "reject" /\ impl = "part" /\ ~options.throwOnFail) =>
    /\ state = "Failed"
    /\ error = callArg
    /\ result = Undefined
    /\ outcome = "returned"

\* C7: with throwOnFail set, an execute whose action rejects raises the
\* value stored in the error slot, the payload of that rejection.
C7_ThrowOnFail ==
  (op = "reject" /\ impl = "part" /\ options.throwOnFail) =>
    /\ outcome = "raised"
    /\ retVal = error
    /\ error = callArg

\* C8: execute called in a state other than Executing with canExecute false
\* for the effective argument (the one passed if one is passed, else the
\* stored one) fails with CannotExecute, invokes no action, dispatches no
\* hook and leaves the state as it was.
effectiveArgument(a) == IF a # Undefined THEN a ELSE argument

C8_CannotExecute ==
  [][(~isExecuting /\ op' = "execute"
        /\ ~canExecuteFor(effectiveArgument(callArg'))) =>
       /\ outcome' = "CannotExecute"
       /\ invokedArg' = NoCall
       /\ inflight' = inflight
       /\ dispatched' = <<>>
       /\ state' = state]_vars

\* C9: abort goes through, the state becoming Aborted, only when the state is
\* Executing, an abort capability is configured and canAbort is true; in
\* every other case it fails with CannotAbort and leaves state, result and
\* error as they were.
C9_AbortGuard ==
  [][op' = "abort" =>
       LET may == isExecuting /\ options.abort /\ canAbort IN
       /\ outcome' \in {"ok", "CannotAbort"}
       /\ outcome' = "ok" => (may /\ state' = "Aborted")
       /\ state' # state => outcome' = "ok"
       /\ ~may => (outcome' = "CannotAbort" /\ UNCHANGED <<state, result, error>>)]_vars

C9_Witness ==
  /\ op = "abort"
  /\ outcome = "ok"
  /\ state = "Aborted"
  /\ inflight > 0

\* C10: reset called while the state is Executing fails with CannotReset,
\* leaves state, argument, result and error as they were and dispatches no
\* onIdle.
C10_CannotReset ==
  [][(isExecuting /\ op' = "reset") =>
       /\ outcome' = "CannotReset"
       /\ UNCHANGED <<state, argument, result, error>>
       /\ resetting' = resetting
       /\ "onIdle" \notin dispatchedKinds']_vars

C10_Witness ==
  /\ op = "reset"
  /\ outcome = "CannotReset"
  /\ state = "Executing"
  /\ hooks["onIdle"] > 0


\* C11: when a reset called in Completed, Failed or Aborted has finished,
\* the state is Idle, result and error are absent and the argument is the
\* output of createArgument (absent when none is configured).
Finished == {"Completed", "Failed", "Aborted"}

C11_AfterReset ==
  [][(\/ (op' = "reset" /\ outcome' = "ok" /\ state \in Finished)
      \/ (op' = "resetResume" /\ callArg' = "finished")) =>
       /\ state' = "Idle"
       /\ result' = Undefined
       /\ error' = Undefined
       /\ argument' = resetArgument]_vars


\* C12: every step that enters a finished state dispatches the kind of that
\* state and then onFinished: onCompleted, onFailed or onAborted first, and
\* for abort before the call returns.
kindsOf(dsp) == [i \in 1..Len(dsp) |-> dsp[i].hook]

C12_FinishedDispatch ==
  [][/\ op' = "resolve" => kindsOf(dispatched') = <<"onCompleted", "onFinished">>
     /\ op' = "reject" => kindsOf(dispatched') = <<"onFailed", "onFinished">>
     /\ (op' = "abort" /\ outcome' = "ok") =>
          kindsOf(dispatched') = <<"onAborted", "onFinished">>]_vars

\* C13: each occurrence of a transition calls every callback registered for
\* its kinds once, in registration order, with a context that shows the
\* state entered (any finished state for onFinished); no other callback is
\* called.
transitionKinds(o, out) ==
  CASE o = "execute" /\ out = "started" -> {"onExecuting"}
    [] o = "resolve" -> {"onCompleted", "onFinished"}
    [] o = "reject" -> {"onFailed", "onFinished"}
    [] o = "abort" /\ out = "ok" -> {"onAborted", "onFinished"}
    [] o = "reset" /\ out = "ok" -> {"onIdle"}
    [] o = "resetResume" -> {"onIdle"}
    [] OTHER -> {}

shows(kind, st) ==
  CASE kind = "onIdle" -> st = "Idle"
    [] kind = "onExecuting" -> st = "Executing"
    [] kind = "onCompleted" -> st = "Completed"
    [] kind = "onFailed" -> st = "Failed"
    [] kind = "onAborted" -> st = "Aborted"
    [] OTHER -> st \in Finished

\* The dispatches of kind in dsp that called a callback.
calling(dsp, kind) ==
  SelectSeq(dsp, LAMBDA d : d.hook = kind /\ d.calls # <<>>)

C13_HooksOncePerTransition ==
  [][\A kind \in HookKinds :
       LET got == calling(dispatched', kind) IN
       IF kind \in transitionKinds(op', outcome') /\ hooks[kind] > 0
       THEN /\ Len(got) = 1
            /\ got[1].calls = [i \in 1..hooks[kind] |-> i]
            /\ shows(kind, got[1].state)
       ELSE got = <<>>]_vars

\* C14: a context handed to a callback is a copy: what is read from it after
\* a later step of the controller is what it held when it was dispatched.
\* (Every step dispatches after its last write, so the context dispatched by
\* the step that led to a state held the slots of that state.)
calledBack == \E i \in 1..Len(dispatched) : dispatched[i].calls # <<>>

C14_ContextIsCopy ==
  [][calledBack => createEventContext' = createEventContext]_vars

\* C15: result and error are never both set: error is absent whenever the
\* state is Completed and result is absent whenever the state is Failed.
C15_ResultXorError ==
  /\ ~(result # Undefined /\ error # Undefined)
  /\ isCompleted => error = Undefined
  /\ isFailed => result = Undefined

\* C16: whatever value is passed to execute, falsy ones included, is what
\* canExecute and the action receive and what is stored afterwards; with no
\* value passed the stored argument is used and stays.
C16_ArgumentPrecedence ==
  [][(op' = "execute" /\ outcome' # "AlreadyExecuting") =>
       LET v == effectiveArgument(callArg') IN
       /\ outcome' = "started" =>
            (canExecuteFor(v) /\ invokedArg' = v /\ argument' = v)
       /\ outcome' = "CannotExecute" => ~canExecuteFor(v)
       /\ callArg' = Undefined => argument' = argument]_vars

\* C17: the state is one of the five, exactly one of isIdle, isExecuting,
\* isCompleted, isFailed, isAborted is true, and isFinished is true exactly
\* when the state is Completed, Failed or Aborted.
C17_StateAndFlags ==
  /\ state \in TaskStates
  /\ Cardinality({ f \in {<<"Idle", isIdle>>, <<"Executing", isExecuting>>,
                          <<"Completed", isCompleted>>, <<"Failed", isFailed>>,
                          <<"Aborted", isAborted>>} : f[2] }) = 1
  /\ isFinished <=> state \in Finished

C17_Witness ==
  /\ op = "abort"
  /\ state = "Aborted"
  /\ isFinished

\* C18: reset is atomic: between the step of reset that sets Idle and the
\* step that clears the slots and dispatches onIdle no execute, abort or
\* settlement takes effect; every onIdle callback sees Idle.
C18_ResetAtomic ==
  [][/\ (resetting > 0 /\ op' # "resetResume") => UNCHANGED <<ctl, inflight>>
     /\ \A i \in 1..Len(dispatched') :
          dispatched'[i].hook = "onIdle" => dispatched'[i].state = "Idle"]_vars


\* C19: a callback that throws does not interrupt the dispatch: the other
\* callbacks of its kind and the kind that follows are still called; and an
\* execute that made the state Executing has invoked the action.
allCalled(dsp) ==
  \A i \in 1..Len(dsp) : dsp[i].calls = [j \in 1..hooks[dsp[i].hook] |-> j]

C19_ThrowingCallback ==
  /\ allCalled(dispatched)
  /\ op = "resolve" => kindsOf(dispatched) = <<"onCompleted", "onFinished">>
  /\ op = "reject" => kindsOf(dispatched) = <<"onFailed", "onFinished">>
  /\ (op = "execute" /\ outcome # "AlreadyExecuting" /\ isExecuting) =>
       invokedArg # NoCall

\* C20: if every invoked action settles, an execution that entered Executing
\* is followed by a finished state: the controller does not stay Executing.
C20_LeavesExecuting == isExecuting ~> isFinished


\* C21: the settlement of an action that an earlier execute started, or
\* that settles after a later reset, leaves state, result and error as the
\* later execute or reset wrote them.
staleSettlement ==
  /\ op' \in settles
  /\ \/ latestInflight' = latestInflight
     \/ isIdle

C21_NoStaleOverwrite ==
  [][staleSettlement => UNCHANGED <<state, result, error>>]_vars

\* C22: an operation refused by its guard (AlreadyExecuting, CannotExecute,
\* CannotAbort, CannotReset) leaves state, argument, result and error as
\* they were before the call and dispatches no hook.
Refusals == {"AlreadyExecuting", "CannotExecute", "CannotAbort", "CannotReset"}

C22_RefusedHasNoEffect ==
  [][outcome' \in Refusals =>
       /\ UNCHANGED <<state, argument, result, error>>
       /\ dispatched' = <<>>]_vars

====
